---- MODULE Spec2Model ----
(***************************************************************************)
(* A model of the two-pass assembler (assembler.py, assemble_source), the  *)
(* virtual processor (CPU.py, class CPU6502) and the run driver            *)
(* (assembler.py, run_program).                                            *)
(*                                                                         *)
(* Python integers are unbounded, so every value is an Integer here and    *)
(* the masks of the code (& 0xFFFF, & 0xFF) are applied exactly where the  *)
(* code applies them.  A token of the source text is a sequence of         *)
(* one-character strings, so that the base-16 parse is computed.           *)
(***************************************************************************)
EXTENDS Integers, Sequences, FiniteSets, TLC

(***************************************************************************)
(* Python values                                                           *)
(***************************************************************************)
None == "None"

\* ValueError raised by CPU6502.execute_instructions for an undecodable byte
UnknownOpcode == "Unknown opcode"
\* IndexError raised by a list subscript outside the list
IndexError == "list index out of range"
\* IndexError raised by an assignment to a list subscript outside the list
IndexErrorAssignment == "list assignment index out of range"
\* the message run_program stores when the for loop runs to completion
ExceededMaxSteps(n) == "Exceeded max_steps=" \o ToString(n)

(***************************************************************************)
(* Python's integer operators.  \div and % are floor division and floor    *)
(* modulus, which on negative numbers is what >> and & with a mask are in  *)
(* two's complement.                                                       *)
(***************************************************************************)
RECURSIVE BitAnd(_, _)
BitAnd(a, b) ==
    IF a = 0 \/ b = 0 THEN 0
    ELSE IF a = -1 THEN b
    ELSE IF b = -1 THEN a
    ELSE (a % 2) * (b % 2) + 2 * BitAnd(a \div 2, b \div 2)

RECURSIVE BitOr(_, _)
BitOr(a, b) ==
    IF a = 0 THEN b
    ELSE IF b = 0 THEN a
    ELSE IF a = -1 \/ b = -1 THEN -1
    ELSE (IF (a % 2) + (b % 2) > 0 THEN 1 ELSE 0) + 2 * BitOr(a \div 2, b \div 2)

BitNot(a) == -a - 1

RECURSIVE BitXor(_, _)
BitXor(a, b) ==
    IF a = 0 THEN b
    ELSE IF b = 0 THEN a
    ELSE IF a = -1 THEN BitNot(b)
    ELSE IF b = -1 THEN BitNot(a)
    ELSE (((a % 2) + (b % 2)) % 2) + 2 * BitXor(a \div 2, b \div 2)

Shl8(a) == a * 256
Shr8(a) == a \div 256

(***************************************************************************)
(* CPU6502: flag masks, memory                                             *)
(***************************************************************************)
CARRY == 1
ZERO == 2
IRQ == 4
DECIMAL == 8
BRK == 16
OVERFLOW == 64
NEGATIVE == 128

\* self.memory = [0x00] * 65536
MEM_SIZE == 65536

(* The memory list is kept as the function of its non-zero cells: a cell   *)
(* that is not in the domain holds 0x00.                                   *)
ZeroMemory == [a \in {} |-> 0]

\* list subscript: an index in -len..len-1 is accepted, negative ones count
\* from the end; anything else raises IndexError
ValidIndex(i) == i >= -MEM_SIZE /\ i < MEM_SIZE
ListIndex(i) == IF i < 0 THEN i + MEM_SIZE ELSE i

MemRead(mem, i) == IF ListIndex(i) \in DOMAIN mem THEN mem[ListIndex(i)] ELSE 0

MemWrite(mem, i, v) ==
    LET a == ListIndex(i)
    IN IF v = 0
       THEN [x \in (DOMAIN mem) \ {a} |-> mem[x]]
       ELSE [x \in (DOMAIN mem) \cup {a} |-> IF x = a THEN v ELSE mem[x]]

(***************************************************************************)
(* CPU6502.__init__                                                        *)
(***************************************************************************)
CPU6502 ==
    [A |-> 0, X |-> 0, Y |-> 0, SP |-> 253, PC |-> 0, P |-> 32,
     memory |-> ZeroMemory, cycles |-> 0]

(***************************************************************************)
(* Flag properties: getters and setters on the packed byte _P              *)
(***************************************************************************)
GetFlag(c, mask) == BitAnd(c.P, mask) # 0

\* the setter that writes the whole packed byte
SetFlagWholeByte(c, mask, v) == [c EXCEPT !.P = IF v THEN mask ELSE 0]

SetFlag(c, mask, v) ==
    [c EXCEPT !.P = IF v THEN BitOr(c.P, mask) ELSE BitAnd(c.P, BitNot(mask))]

C(c) == GetFlag(c, CARRY)
Z(c) == GetFlag(c, ZERO)
I(c) == GetFlag(c, IRQ)
D(c) == GetFlag(c, DECIMAL)
B(c) == GetFlag(c, BRK)
V(c) == GetFlag(c, OVERFLOW)
N(c) == GetFlag(c, NEGATIVE)

update_zn_flags(c, val) ==
    SetFlag(SetFlag(c, ZERO, BitAnd(val, 65535) = 0),
            NEGATIVE, BitAnd(val, 32768) # 0)

snapshot(c) ==
    [PC |-> BitAnd(c.PC, 65535),
     A |-> BitAnd(c.A, 65535),
     X |-> BitAnd(c.X, 65535),
     Y |-> BitAnd(c.Y, 65535),
     SP |-> BitAnd(c.SP, 255),
     P |-> BitAnd(c.P, 255),
     cycles |-> c.cycles,
     flags |-> [C |-> C(c), Z |-> Z(c), I |-> I(c), D |-> D(c),
                B |-> B(c), V |-> V(c), N |-> N(c)]]

Cycles(c, n) == [c EXCEPT !.cycles = c.cycles + n]

(***************************************************************************)
(* Instruction methods.  Each takes the processor record and returns the   *)
(* processor record after the method.                                      *)
(***************************************************************************)
LDA(c, v) ==
    LET c1 == [c EXCEPT !.A = BitAnd(v, 65535)]
    IN Cycles(update_zn_flags(c1, c1.A), 2)

LDX(c, v) ==
    LET c1 == [c EXCEPT !.X = BitAnd(v, 65535)]
    IN Cycles(update_zn_flags(c1, c1.X), 2)

LDY(c, v) ==
    LET c1 == [c EXCEPT !.Y = BitAnd(v, 65535)]
    IN Cycles(update_zn_flags(c1, c1.Y), 2)

\* the addition that leaves the incoming Carry out
ADCWithoutCarryIn(c, v) ==
    LET t == c.A + v
        r == BitAnd(t, 65535)
        c1 == SetFlag(c, OVERFLOW,
                      BitAnd(BitAnd(BitXor(c.A, r), BitXor(v, r)), 32768) # 0)
        c2 == SetFlag(c1, CARRY, t > 65535)
        c3 == [c2 EXCEPT !.A = r]
    IN Cycles(update_zn_flags(c3, c3.A), 2)

ADC(c, v) ==
    LET t == c.A + v + (IF C(c) THEN 1 ELSE 0)
        r == BitAnd(t, 65535)
        c1 == SetFlag(c, OVERFLOW,
                      BitAnd(BitAnd(BitXor(c.A, r), BitXor(v, r)), 32768) # 0)
        c2 == SetFlag(c1, CARRY, t > 65535)
        c3 == [c2 EXCEPT !.A = r]
    IN Cycles(update_zn_flags(c3, c3.A), 2)

\* the subtraction with the overflow test of the addition (v, not ~v)
SBCOverflowOfADC(c, v) ==
    LET t == c.A - v - (IF C(c) THEN 0 ELSE 1)
        r == BitAnd(t, 65535)
        c1 == SetFlag(c, OVERFLOW,
                      BitAnd(BitAnd(BitXor(c.A, r), BitXor(v, r)), 32768) # 0)
        c2 == SetFlag(c1, CARRY, t >= 0)
        c3 == [c2 EXCEPT !.A = r]
    IN Cycles(update_zn_flags(c3, c3.A), 2)

SBC(c, v) ==
    LET t == c.A - v - (IF C(c) THEN 0 ELSE 1)
        r == BitAnd(t, 65535)
        c1 == SetFlag(c, OVERFLOW,
                      BitAnd(BitAnd(BitXor(c.A, r), BitXor(BitNot(v), r)), 32768) # 0)
        c2 == SetFlag(c1, CARRY, t >= 0)
        c3 == [c2 EXCEPT !.A = r]
    IN Cycles(update_zn_flags(c3, c3.A), 2)

\* the compare with Carry set on A > v only
CMPStrictCarry(c, v) ==
    LET d == c.A - v
        c1 == update_zn_flags(c, BitAnd(d, 65535))
    IN Cycles(SetFlag(c1, CARRY, c.A > v), 2)

CMP(c, v) ==
    LET d == c.A - v
        c1 == update_zn_flags(c, BitAnd(d, 65535))
    IN Cycles(SetFlag(c1, CARRY, c.A >= v), 2)

CMPC(c, addr) ==
    LET v == BitOr(MemRead(c.memory, addr), Shl8(MemRead(c.memory, addr + 1)))
        d == c.A - v
        c1 == update_zn_flags(c, BitAnd(d, 65535))
    IN Cycles(SetFlag(c1, CARRY, c.A >= v), 4)

CPX(c, v) ==
    LET d == c.X - v
        c1 == update_zn_flags(c, BitAnd(d, 65535))
    IN Cycles(SetFlag(c1, CARRY, c.X >= v), 2)

AND(c, v) ==
    LET c1 == [c EXCEPT !.A = BitAnd(c.A, v)]
    IN Cycles(update_zn_flags(c1, c1.A), 2)

ORA(c, v) ==
    LET c1 == [c EXCEPT !.A = BitOr(c.A, v)]
    IN Cycles(update_zn_flags(c1, c1.A), 2)

EOR(c, v) ==
    LET c1 == [c EXCEPT !.A = BitXor(c.A, v)]
    IN Cycles(update_zn_flags(c1, c1.A), 2)

TAX(c) ==
    LET c1 == [c EXCEPT !.X = c.A]
    IN Cycles(update_zn_flags(c1, c1.X), 2)

XTA(c) ==
    LET c1 == [c EXCEPT !.A = c.X]
    IN Cycles(update_zn_flags(c1, c1.A), 2)

\* the clear-carry charged as the other one-byte instructions are
CLCTwoCycles(c) == Cycles(SetFlag(c, CARRY, FALSE), 2)

CLC(c) == Cycles(SetFlag(c, CARRY, FALSE), 1)

NOP(c) == Cycles(c, 2)

\* the store that writes one cell further up: addr + 1 and addr + 2
A_to_store_one_cell_up(c, addr) ==
    LET m1 == MemWrite(c.memory, addr + 1, BitAnd(c.A, 255))
        m2 == MemWrite(m1, addr + 2, BitAnd(Shr8(c.A), 255))
    IN Cycles([c EXCEPT !.memory = m2], 4)

A_to_store(c, addr) ==
    LET m1 == MemWrite(c.memory, addr, BitAnd(c.A, 255))
        m2 == MemWrite(m1, addr + 1, BitAnd(Shr8(c.A), 255))
    IN Cycles([c EXCEPT !.memory = m2], 4)

from_store_to_A(c, addr) ==
    LET low == MemRead(c.memory, addr)
        high == MemRead(c.memory, addr + 1)
        c1 == [c EXCEPT !.A = BitOr(Shl8(high), low)]
    IN Cycles(update_zn_flags(c1, c1.A), 4)

X_to_store(c, addr) ==
    LET m1 == MemWrite(c.memory, addr, BitAnd(c.X, 255))
        m2 == MemWrite(m1, addr + 1, BitAnd(Shr8(c.X), 255))
    IN Cycles([c EXCEPT !.memory = m2], 4)

from_store_to_X(c, addr) ==
    LET low == MemRead(c.memory, addr)
        high == MemRead(c.memory, addr + 1)
        c1 == [c EXCEPT !.X = BitOr(Shl8(high), low)]
    IN Cycles(update_zn_flags(c1, c1.X), 4)

\* the value and address handed to the output handler
OutputValue(c, addr) ==
    BitOr(Shl8(MemRead(c.memory, addr + 1)), MemRead(c.memory, addr))

Output_to_console(c, addr) == Cycles(c, 4)

\* the console input stored without its 16-bit mask
from_console_to_A_unmasked(c, v) ==
    LET c1 == [c EXCEPT !.A = v]
    IN Cycles(update_zn_flags(c1, c1.A), 2)

\* v is what the input provider returned
from_console_to_A(c, v) ==
    LET c1 == [c EXCEPT !.A = BitAnd(v, 65535)]
    IN Cycles(update_zn_flags(c1, c1.A), 2)

(* (a * val) & 0xFFFF.  The low 16 bits of a product depend on the low 16   *)
(* bits of the factors only, so the product is taken on their 8-bit halves *)
(* and never leaves the integers the checker can hold: with a = a1.a0 and  *)
(* val = v1.v0, a * val = a0*v0 + 256 * (a1*v0 + a0*v1) modulo 65536.      *)
MulMask16(a, val) ==
    LET a0 == a % 256
        a1 == (a \div 256) % 256
        v0 == val % 256
        v1 == (val \div 256) % 256
    IN (a0 * v0 + 256 * ((a1 * v0 + a0 * v1) % 256)) % 65536

MUL(c, addr) ==
    LET val == BitOr(MemRead(c.memory, addr), Shl8(MemRead(c.memory, addr + 1)))
        c1 == [c EXCEPT !.A = MulMask16(c.A, val)]
    IN Cycles(update_zn_flags(c1, c1.A), 4)

\* the multiply-to-memory that writes the low byte of the product only
MULMLowByteOnly(c, addr) ==
    LET val == BitOr(MemRead(c.memory, addr), Shl8(MemRead(c.memory, addr + 1)))
        result == MulMask16(c.A, val)
        m1 == MemWrite(c.memory, addr, BitAnd(result, 255))
    IN Cycles(update_zn_flags([c EXCEPT !.memory = m1], result), 6)

MULM(c, addr) ==
    LET val == BitOr(MemRead(c.memory, addr), Shl8(MemRead(c.memory, addr + 1)))
        result == MulMask16(c.A, val)
        m1 == MemWrite(c.memory, addr, BitAnd(result, 255))
        m2 == MemWrite(m1, addr + 1, BitAnd(Shr8(result), 255))
    IN Cycles(update_zn_flags([c EXCEPT !.memory = m2], result), 6)

(***************************************************************************)
(* What a call leaves behind: the processor, what it returned or raised,   *)
(* and the two side channels of run_program (the input queue and the       *)
(* outputs list the closures of run_program read and append to).           *)
(***************************************************************************)
Returned(c, ret, inq, outq) ==
    [cpu |-> c, raised |-> FALSE, ret |-> ret, exc |-> None,
     input_values |-> inq, outputs |-> outq]

\* nothing is returned: ret is not read
Raised(c, exc, inq, outq) ==
    [cpu |-> c, raised |-> TRUE, ret |-> FALSE, exc |-> exc,
     input_values |-> inq, outputs |-> outq]

\* run_program.input_provider: the value returned and the queue left
input_provider_value(inq) == IF inq # <<>> THEN Head(inq) ELSE 0
\* the provider that returns the head and leaves it in the queue
input_provider_peek(inq) == inq

input_provider_rest(inq) == IF inq # <<>> THEN Tail(inq) ELSE inq

\* the handler that keeps the last pair only
output_handler_last_only(outq, value, addr) ==
    <<[value |-> BitAnd(value, 65535), address |-> BitAnd(addr, 65535)]>>

\* run_program.output_handler
output_handler(outq, value, addr) ==
    Append(outq, [value |-> BitAnd(value, 65535), address |-> BitAnd(addr, 65535)])

(***************************************************************************)
(* CPU6502.branch.  The subscript self.memory[self._PC] raises when _PC    *)
(* has left the list; nothing is assigned before it.                       *)
(***************************************************************************)
\* the offset byte taken as unsigned
BranchOffsetUnsigned(byte) == byte

BranchOffset(byte) == IF byte >= 128 THEN byte - 256 ELSE byte

BranchTakenPC(pc, offset) == BitAnd(pc + offset, 65535)

branch(c, condition, inq, outq) ==
    IF ~ValidIndex(c.PC) THEN Raised(c, IndexError, inq, outq)
    ELSE LET offset == BranchOffset(MemRead(c.memory, c.PC))
             c1 == [c EXCEPT !.PC = c.PC + 1]
         IN IF condition
            THEN Returned(Cycles([c1 EXCEPT !.PC = BranchTakenPC(c1.PC, offset)], 3),
                          TRUE, inq, outq)
            ELSE Returned(Cycles(c1, 2), TRUE, inq, outq)

(***************************************************************************)
(* Operand fetches of CPU6502.execute_instructions                         *)
(*   addr = self.memory[self._PC]; self._PC += 1                           *)
(*   val = self.memory[self._PC] | (self.memory[self._PC + 1] << 8);       *)
(*   self._PC += 2                                                         *)
(* c is the processor after the opcode fetch.  A subscript outside the     *)
(* list raises before _PC is advanced.                                     *)
(***************************************************************************)
PtrOperandOk(c) == ValidIndex(c.PC)
PtrOperand(c) == MemRead(c.memory, c.PC)
\* the pointer fetch advancing _PC past two bytes
AfterPtrOperandTwoBytes(c) == [c EXCEPT !.PC = c.PC + 2]

AfterPtrOperand(c) == [c EXCEPT !.PC = c.PC + 1]

Imm16OperandOk(c) == ValidIndex(c.PC) /\ ValidIndex(c.PC + 1)
Imm16Operand(c) == BitOr(MemRead(c.memory, c.PC), Shl8(MemRead(c.memory, c.PC + 1)))
AfterImm16Operand(c) == [c EXCEPT !.PC = c.PC + 2]

\* elif op == 0x4C
JMP(c) ==
    LET low == MemRead(c.memory, c.PC)
        high == MemRead(c.memory, c.PC + 1)
    IN Cycles([c EXCEPT !.PC = BitOr(Shl8(high), low)], 3)

\* the opcodes whose arm reads a pointer byte, with the method the arm calls
PtrMethod(op, c, addr) ==
    CASE op = 1   -> A_to_store(c, addr)        \* 0x01
      [] op = 2   -> from_store_to_A(c, addr)   \* 0x02
      [] op = 3   -> X_to_store(c, addr)        \* 0x03
      [] op = 4   -> from_store_to_X(c, addr)   \* 0x04
      [] op = 6   -> Output_to_console(c, addr) \* 0x06
      [] op = 7   -> MUL(c, addr)               \* 0x07
      [] op = 20  -> MULM(c, addr)              \* 0x14
      [] op = 205 -> CMPC(c, addr)              \* 0xCD

PtrOpcodes == {1, 2, 3, 4, 6, 7, 20, 205}

\* the opcodes whose arm reads a 16-bit little-endian value
Imm16Method(op, c, val) ==
    CASE op = 9   -> ORA(c, val)   \* 0x09
      [] op = 41  -> AND(c, val)   \* 0x29
      [] op = 73  -> EOR(c, val)   \* 0x49
      [] op = 105 -> ADC(c, val)   \* 0x69
      [] op = 160 -> LDY(c, val)   \* 0xA0
      [] op = 162 -> LDX(c, val)   \* 0xA2
      [] op = 169 -> LDA(c, val)   \* 0xA9
      [] op = 201 -> CMP(c, val)   \* 0xC9
      [] op = 224 -> CPX(c, val)   \* 0xE0
      [] op = 233 -> SBC(c, val)   \* 0xE9

Imm16Opcodes == {9, 41, 73, 105, 160, 162, 169, 201, 224, 233}

\* the opcodes whose arm calls self.branch, with the condition passed
BranchCondition(op, c) ==
    CASE op = 16  -> ~N(c)   \* 0x10
      [] op = 48  -> N(c)    \* 0x30
      [] op = 80  -> ~V(c)   \* 0x50
      [] op = 112 -> V(c)    \* 0x70
      [] op = 144 -> ~C(c)   \* 0x90
      [] op = 176 -> C(c)    \* 0xB0
      [] op = 208 -> ~Z(c)   \* 0xD0
      [] op = 240 -> Z(c)    \* 0xF0

BranchOpcodes == {16, 48, 80, 112, 144, 176, 208, 240}

\* the opcodes whose arm reads no operand
NoOperandMethod(op, c) ==
    CASE op = 8   -> XTA(c)   \* 0x08
      [] op = 24  -> CLC(c)   \* 0x18
      [] op = 170 -> TAX(c)   \* 0xAA
      [] op = 234 -> NOP(c)   \* 0xEA

NoOperandOpcodes == {8, 24, 170, 234}

\* every byte some arm of the if/elif chain accepts
DispatchOpcodes ==
    {0, 5, 76} \cup PtrOpcodes \cup Imm16Opcodes \cup BranchOpcodes \cup NoOperandOpcodes

\* the opcode fetch without its advance of _PC
FetchOpcodeNoAdvance(c) == c

\* self._PC += 1 after the opcode is read
FetchOpcode(c) == [c EXCEPT !.PC = c.PC + 1]

\* if op == 0x00: return False
HaltArm(c, inq, outq) == Returned(c, FALSE, inq, outq)

\* an undecodable byte that is charged two cycles before it is refused
UnknownOpcodeCharged(c, inq, outq) == Raised(Cycles(c, 2), UnknownOpcode, inq, outq)

\* an undecodable byte taken for the halt opcode
UnknownOpcodeAsHalt(c, inq, outq) == Returned(c, FALSE, inq, outq)

\* else: raise ValueError(f"Unknown opcode {op:02X}")
UnknownOpcodeArm(c, inq, outq) == Raised(c, UnknownOpcode, inq, outq)

(***************************************************************************)
(* CPU6502.execute_instructions: one fetch-decode-execute step.            *)
(***************************************************************************)
execute_instructions(c, inq, outq) ==
    IF ~ValidIndex(c.PC) THEN Raised(c, IndexError, inq, outq)
    ELSE
    LET op == MemRead(c.memory, c.PC)
        c1 == FetchOpcode(c)
    IN CASE op = 0 -> HaltArm(c1, inq, outq)
         [] op \in PtrOpcodes ->
              IF ~PtrOperandOk(c1) THEN Raised(c1, IndexError, inq, outq)
              ELSE LET addr == PtrOperand(c1)
                       c2 == AfterPtrOperand(c1)
                   IN Returned(PtrMethod(op, c2, addr), TRUE, inq,
                               IF op = 6
                               THEN output_handler(outq, OutputValue(c2, addr), addr)
                               ELSE outq)
         [] op = 5 ->
              Returned(from_console_to_A(c1, input_provider_value(inq)), TRUE,
                       input_provider_rest(inq), outq)
         [] op \in NoOperandOpcodes -> Returned(NoOperandMethod(op, c1), TRUE, inq, outq)
         [] op \in Imm16Opcodes ->
              IF ~Imm16OperandOk(c1) THEN Raised(c1, IndexError, inq, outq)
              ELSE Returned(Imm16Method(op, AfterImm16Operand(c1), Imm16Operand(c1)),
                            TRUE, inq, outq)
         [] op \in BranchOpcodes -> branch(c1, BranchCondition(op, c1), inq, outq)
         [] op = 76 ->
              IF ~Imm16OperandOk(c1) THEN Raised(c1, IndexError, inq, outq)
              ELSE Returned(JMP(c1), TRUE, inq, outq)
         [] OTHER -> UnknownOpcodeArm(c1, inq, outq)

(***************************************************************************)
(* assembler.py: the tables                                                *)
(***************************************************************************)
OPCODES ==
    [op \in {"LDA", "LDX", "LDY", "ADC", "SBC", "CMP", "CPX", "AND", "ORA", "EOR",
             "NOP", "BRK", "TAX", "BNE", "BEQ", "BCC", "BCS", "BMI", "BPL", "BVS",
             "BVC", "CLC", "JMP", "MUL", "MULM", "CMPC", "STA", "LSA", "STX",
             "LSX", "CTA", "OTT", "XTA"} |->
        CASE op = "LDA" -> 169 [] op = "LDX" -> 162 [] op = "LDY" -> 160
          [] op = "ADC" -> 105 [] op = "SBC" -> 233 [] op = "CMP" -> 201
          [] op = "CPX" -> 224 [] op = "AND" -> 41  [] op = "ORA" -> 9
          [] op = "EOR" -> 73  [] op = "NOP" -> 234 [] op = "BRK" -> 0
          [] op = "TAX" -> 170 [] op = "BNE" -> 208 [] op = "BEQ" -> 240
          [] op = "BCC" -> 144 [] op = "BCS" -> 176 [] op = "BMI" -> 48
          [] op = "BPL" -> 16  [] op = "BVS" -> 112 [] op = "BVC" -> 80
          [] op = "CLC" -> 24  [] op = "JMP" -> 76  [] op = "MUL" -> 7
          [] op = "MULM" -> 20 [] op = "CMPC" -> 205 [] op = "STA" -> 1
          [] op = "LSA" -> 2   [] op = "STX" -> 3   [] op = "LSX" -> 4
          [] op = "CTA" -> 5   [] op = "OTT" -> 6   [] op = "XTA" -> 8]

NO_ARG == {"BRK", "NOP", "XTA", "CLC", "CTA", "TAX"}
ABSOLUTE_ADDR == {"JMP"}
IMM16_OPS == {"LDA", "LDX", "LDY", "ADC", "SBC", "CMP", "CPX", "AND", "ORA", "EOR"}
BRANCH_OPS == {"BNE", "BEQ", "BCC", "BCS", "BMI", "BPL", "BVS", "BVC"}

_instruction_size(op) ==
    IF op \in NO_ARG THEN 1
    ELSE IF op \in IMM16_OPS \/ op \in ABSOLUTE_ADDR THEN 3
    ELSE 2

(***************************************************************************)
(* _parse_number: int(token, 16).  A token is a sequence of characters;    *)
(* the digits 0-9, A-F and a-f are accepted (the sign, the 0x prefix and   *)
(* the underscore separators int() also accepts are not among the tokens   *)
(* drawn here); any other character raises ValueError.                     *)
(***************************************************************************)
HexDigitValue(ch) ==
    CASE ch = "0" -> 0 [] ch = "1" -> 1 [] ch = "2" -> 2 [] ch = "3" -> 3
      [] ch = "4" -> 4 [] ch = "5" -> 5 [] ch = "6" -> 6 [] ch = "7" -> 7
      [] ch = "8" -> 8 [] ch = "9" -> 9
      [] ch \in {"A", "a"} -> 10 [] ch \in {"B", "b"} -> 11
      [] ch \in {"C", "c"} -> 12 [] ch \in {"D", "d"} -> 13
      [] ch \in {"E", "e"} -> 14 [] ch \in {"F", "f"} -> 15
      [] OTHER -> -1

ParsesAsNumber(token) ==
    token # <<>> /\ \A i \in 1..Len(token) : HexDigitValue(token[i]) >= 0

RECURSIVE _parse_number(_)
_parse_number(token) ==
    IF token = <<>> THEN 0
    ELSE 16 * _parse_number(SubSeq(token, 1, Len(token) - 1))
         + HexDigitValue(token[Len(token)])

(***************************************************************************)
(* Statements, as _parse_source returns them.  arg = NoArgument stands for *)
(* arg = None (a token is never empty).                                    *)
(***************************************************************************)
NoArgument == <<>>
LabelStmt(name) == [type |-> "label", value |-> name]
InstrStmt(op, arg) == [type |-> "instruction", op |-> op, arg |-> arg]
ByteStmt(token) == [type |-> "byte", value |-> token]

\* ValueError messages of assemble_source
ExpectsArgument == "expects an argument"
BranchOutOfRange == "Branch offset out of range"
InvalidLiteral == "invalid literal for int() with base 16"

(***************************************************************************)
(* assemble_source, pass 1: one statement of the first loop.               *)
(* st = [addr, labels]; labels is the dict, a function on the names bound. *)
(***************************************************************************)
DictSet(d, k, v) == [x \in (DOMAIN d) \cup {k} |-> IF x = k THEN v ELSE d[x]]

Pass1Stmt(st, stmt) ==
    IF stmt.type = "label"
    THEN [st EXCEPT !.labels = DictSet(st.labels, stmt.value, st.addr)]
    ELSE IF stmt.type = "instruction"
    THEN [st EXCEPT !.addr = st.addr + _instruction_size(stmt.op)]
    ELSE [st EXCEPT !.addr = st.addr + 1]

(* The loop over statements[lo..hi], left to right, st threaded through.   *)
(* The range is halved so that the depth of the evaluation is logarithmic  *)
(* in the number of statements.                                            *)
RECURSIVE Pass1(_, _, _, _)
Pass1(statements, lo, hi, st) ==
    IF lo > hi THEN st
    ELSE IF lo = hi THEN Pass1Stmt(st, statements[lo])
    ELSE LET mid == (lo + hi) \div 2
             left == Pass1(statements, lo, mid, st)
         IN IF left.addr >= st.addr THEN Pass1(statements, mid + 1, hi, left) ELSE left

(***************************************************************************)
(* assemble_source, pass 2: the bytes one statement appends to program, or *)
(* the ValueError it raises.  addr is the address before the statement.    *)
(***************************************************************************)
\* the range check made symmetric: -127..127
BranchOffsetInRangeSymmetric(offset) == ~(offset < -127 \/ offset > 127)

BranchOffsetInRange(offset) == ~(offset < -128 \/ offset > 127)

Emitted(bytes) == [err |-> None, bytes |-> bytes]
AsmError(msg) == [err |-> msg, bytes |-> <<>>]

Pass2Stmt(stmt, addr0, labels) ==
    IF stmt.type = "label" THEN Emitted(<<>>)
    ELSE IF stmt.type = "instruction"
    THEN LET op == stmt.op
             arg == stmt.arg
             addr == addr0 + 1
         IN IF op \in NO_ARG THEN Emitted(<<OPCODES[op]>>)
            ELSE IF arg = NoArgument THEN AsmError(ExpectsArgument)
            ELSE IF arg \in DOMAIN labels
            THEN LET target == labels[arg]
                 IN IF op \in BRANCH_OPS
                    THEN LET offset == target - (addr + 1)
                         IN IF ~BranchOffsetInRange(offset)
                            THEN AsmError(BranchOutOfRange)
                            ELSE Emitted(<<OPCODES[op], BitAnd(offset, 255)>>)
                    ELSE IF op \in ABSOLUTE_ADDR \/ op \in IMM16_OPS
                    THEN Emitted(<<OPCODES[op], BitAnd(target, 255),
                                   BitAnd(Shr8(target), 255)>>)
                    ELSE Emitted(<<OPCODES[op], BitAnd(target, 255)>>)
            ELSE IF ~ParsesAsNumber(arg) THEN AsmError(InvalidLiteral)
            ELSE LET value == _parse_number(arg)
                 IN IF op \in ABSOLUTE_ADDR \/ op \in IMM16_OPS
                    THEN Emitted(<<OPCODES[op], BitAnd(value, 255),
                                   BitAnd(Shr8(value), 255)>>)
                    ELSE Emitted(<<OPCODES[op], BitAnd(value, 255)>>)
    ELSE IF ~ParsesAsNumber(stmt.value) THEN AsmError(InvalidLiteral)
    ELSE Emitted(<<BitAnd(_parse_number(stmt.value), 255)>>)

(* The second loop over statements[lo..hi]: [err, addr, program], program  *)
(* being the bytes appended by lo..hi.  A raise ends the loop.             *)
RECURSIVE Pass2(_, _, _, _, _)
Pass2(statements, lo, hi, addr, labels) ==
    IF lo > hi THEN [err |-> None, addr |-> addr, program |-> <<>>]
    ELSE IF lo = hi
    THEN LET e == Pass2Stmt(statements[lo], addr, labels)
         IN [err |-> e.err, addr |-> addr + Len(e.bytes), program |-> e.bytes]
    ELSE LET mid == (lo + hi) \div 2
             left == Pass2(statements, lo, mid, addr, labels)
         IN IF left.err # None THEN left
            ELSE LET right == Pass2(statements, mid + 1, hi, left.addr, labels)
                 IN [err |-> right.err, addr |-> right.addr,
                     program |-> left.program \o right.program]

EmptyDict == [x \in {} |-> 0]

\* the label table after pass 1, and the address pass 1 ends at
LabelTable(statements) ==
    Pass1(statements, 1, Len(statements), [addr |-> 0, labels |-> EmptyDict])

\* [err, program]: the list returned, or the ValueError raised
assemble_source(statements) ==
    LET p1 == LabelTable(statements)
        p2 == Pass2(statements, 1, Len(statements), 0, p1.labels)
    IN IF p2.err # None THEN [err |-> p2.err, program |-> <<>>]
       ELSE [err |-> None, program |-> p2.program]

(***************************************************************************)
(* run_program: the state of one call                                      *)
(***************************************************************************)
VARIABLES
    source,             \* the statements _parse_source returned
    max_steps,          \* argument
    inputs,             \* argument
    phase,              \* "assemble", "load", "loop", "returned", "raised"
    program,            \* assemble_source's result
    cpu,                \* the CPU6502 instance
    input_values,       \* the queue input_provider pops
    outputs,            \* the list output_handler appends to
    occupied_addresses, \* the set of runtime-written cells
    trace,
    halted,
    error,
    step,               \* the loop variable of the for loop
    final_state,        \* result["final_state"], once returned
    exception           \* the exception that left run_program, once raised

vars ==
    <<source, max_steps, inputs, phase, program, cpu, input_values, outputs,
      occupied_addresses, trace, halted, error, step, final_state, exception>>

RECURSIVE sorted(_)
sorted(S) ==
    IF S = {} THEN <<>>
    ELSE LET m == CHOOSE x \in S : \A y \in S : x <= y
         IN <<m>> \o sorted(S \ {m})

\* run_program.snapshot_occupied_memory
snapshot_occupied_memory(c, occupied) ==
    LET addrs == sorted(occupied)
    IN [i \in 1..Len(addrs) |->
           [address |-> BitAnd(addrs[i], 65535),
            value |-> BitAnd(MemRead(c.memory, addrs[i]), 255)]]

\* for idx, byte in enumerate(program): cpu.memory[start + idx] = byte & 0xFF
\* into the all-zero memory of a new CPU6502; the subscript raises at
\* idx = 65536
LoadRaises(prog) == Len(prog) > MEM_SIZE

LoadedMemory(prog) ==
    [a \in {i - 1 : i \in {j \in 1..Len(prog) : BitAnd(prog[j], 255) # 0}} |->
        BitAnd(prog[a + 1], 255)]

\* the cells the loop adds to occupied_addresses before the step at c's PC
OccupiedAfter(c, occupied) ==
    LET op == MemRead(c.memory, c.PC)
        target == MemRead(c.memory, BitAnd(c.PC + 1, 65535))
    IN IF op \in {1, 3, 20}
       THEN occupied \cup {BitAnd(target, 65535), BitAnd(target + 1, 65535)}
       ELSE occupied

\* the record appended to trace when execute_instructions raised
ErrorRecord(n, op, before, err, occupied, c) ==
    [step |-> n, opcode |-> op, before |-> before, error |-> err,
     memory_used |-> snapshot_occupied_memory(c, occupied)]

\* the step record whose pre-step snapshot is taken after the step
StepRecordBeforeTakenAfter(n, op, before, after, cont, occupied, c) ==
    [step |-> n, opcode |-> op, before |-> after, after |-> after,
     halted |-> ~cont, memory_used |-> snapshot_occupied_memory(c, occupied)]

\* the record appended to trace when execute_instructions returned cont
StepRecord(n, op, before, after, cont, occupied, c) ==
    [step |-> n, opcode |-> op, before |-> before, after |-> after,
     halted |-> ~cont, memory_used |-> snapshot_occupied_memory(c, occupied)]

(***************************************************************************)
(* run_program, line 161: program = assemble_source(source).  A ValueError *)
(* of the assembler leaves run_program.                                    *)
(***************************************************************************)
Assemble ==
    /\ phase = "assemble"
    /\ LET r == assemble_source(source)
       IN IF r.err # None
          THEN /\ phase' = "raised"
               /\ exception' = r.err
               /\ program' = program
          ELSE /\ phase' = "load"
               /\ program' = r.program
               /\ exception' = exception
    /\ UNCHANGED <<source, max_steps, inputs, cpu, input_values, outputs,
                   occupied_addresses, trace, halted, error, step, final_state>>

(***************************************************************************)
(* run_program, lines 163-188: the queue, the processor, the load.  The    *)
(* IndexError of the load leaves run_program.                              *)
(***************************************************************************)
Load ==
    /\ phase = "load"
    /\ input_values' = inputs
    /\ outputs' = <<>>
    /\ occupied_addresses' = {}
    /\ trace' = <<>>
    /\ halted' = FALSE
    /\ error' = None
    /\ IF LoadRaises(program)
       THEN /\ phase' = "raised"
            /\ exception' = IndexErrorAssignment
            /\ cpu' = [CPU6502 EXCEPT
                         !.memory = LoadedMemory(SubSeq(program, 1, MEM_SIZE))]
            /\ step' = step
       ELSE /\ phase' = "loop"
            /\ cpu' = [CPU6502 EXCEPT !.memory = LoadedMemory(program), !.PC = 0]
            /\ step' = 1
            /\ exception' = exception
    /\ UNCHANGED <<source, max_steps, inputs, program, final_state>>

(***************************************************************************)
(* One iteration of the for loop, lines 190-228.                           *)
(***************************************************************************)
\* the loop bound taken one too far: range(1, max_steps + 2)
InLoopOneTooFar == phase = "loop" /\ step <= max_steps + 1

InLoop == phase = "loop" /\ step <= max_steps

\* line 192, op = cpu.memory[cpu._PC], is outside the try: its IndexError
\* leaves run_program
StepUncaught ==
    /\ InLoop
    /\ ~ValidIndex(cpu.PC)
    /\ phase' = "raised"
    /\ exception' = IndexError
    /\ UNCHANGED <<source, max_steps, inputs, program, cpu, input_values, outputs,
                   occupied_addresses, trace, halted, error, step, final_state>>

\* execute_instructions raised: the except clause, break, return
StepFault ==
    /\ InLoop
    /\ ValidIndex(cpu.PC)
    /\ LET before == snapshot(cpu)
           op == MemRead(cpu.memory, cpu.PC)
           occ == OccupiedAfter(cpu, occupied_addresses)
           r == execute_instructions(cpu, input_values, outputs)
       IN /\ r.raised
          /\ occupied_addresses' = occ
          /\ cpu' = r.cpu
          /\ input_values' = r.input_values
          /\ outputs' = r.outputs
          /\ error' = r.exc
          /\ trace' = Append(trace, ErrorRecord(step, op, before, r.exc, occ, r.cpu))
          /\ final_state' = snapshot(r.cpu)
    /\ phase' = "returned"
    /\ UNCHANGED <<source, max_steps, inputs, program, halted, step, exception>>

\* execute_instructions returned False: halted = True, break, return
StepHalt ==
    /\ InLoop
    /\ ValidIndex(cpu.PC)
    /\ LET before == snapshot(cpu)
           op == MemRead(cpu.memory, cpu.PC)
           occ == OccupiedAfter(cpu, occupied_addresses)
           r == execute_instructions(cpu, input_values, outputs)
       IN /\ ~r.raised /\ ~r.ret
          /\ occupied_addresses' = occ
          /\ cpu' = r.cpu
          /\ input_values' = r.input_values
          /\ outputs' = r.outputs
          /\ trace' = Append(trace, StepRecord(step, op, before, snapshot(r.cpu),
                                               FALSE, occ, r.cpu))
          /\ final_state' = snapshot(r.cpu)
    /\ halted' = TRUE
    /\ phase' = "returned"
    /\ UNCHANGED <<source, max_steps, inputs, program, error, step, exception>>

\* execute_instructions returned True: the loop goes on
StepContinue ==
    /\ InLoop
    /\ ValidIndex(cpu.PC)
    /\ LET before == snapshot(cpu)
           op == MemRead(cpu.memory, cpu.PC)
           occ == OccupiedAfter(cpu, occupied_addresses)
           r == execute_instructions(cpu, input_values, outputs)
       IN /\ ~r.raised /\ r.ret
          /\ occupied_addresses' = occ
          /\ cpu' = r.cpu
          /\ input_values' = r.input_values
          /\ outputs' = r.outputs
          /\ trace' = Append(trace, StepRecord(step, op, before, snapshot(r.cpu),
                                               TRUE, occ, r.cpu))
    /\ step' = step + 1
    /\ UNCHANGED <<source, max_steps, inputs, program, phase, halted, error,
                   final_state, exception>>

\* the else clause of the for loop, line 230, and the return
LoopExhausted ==
    /\ phase = "loop"
    /\ step > max_steps
    /\ error' = ExceededMaxSteps(max_steps)
    /\ final_state' = snapshot(cpu)
    /\ phase' = "returned"
    /\ UNCHANGED <<source, max_steps, inputs, program, cpu, input_values, outputs,
                   occupied_addresses, trace, halted, step, exception>>

(***************************************************************************)
(* The calls checked: run_program(source, max_steps, inputs)               *)
(***************************************************************************)
\* step limits 1..MaxSteps
MaxSteps == 4
\* the longest run of one-byte statements between a branch and its label
MaxPad == 128
\* the longest source of the label family
MaxLabelStmts == 3

T0 == <<"0">>
T1 == <<"1">>
T10 == <<"1", "0">>
T7FFF == <<"7", "F", "F", "F">>
T8000 == <<"8", "0", "0", "0">>
TFFFF == <<"F", "F", "F", "F">>
TFF == <<"F", "F">>
Tfd == <<"f", "d">>
TL == <<"L">>
TA == <<"A">>
TB == <<"B">>
TZZ == <<"Z", "Z">>

\* statements that leave the flags in each of the branch conditions
Setups ==
    {<<>>,
     <<InstrStmt("LDA", T8000)>>,
     <<InstrStmt("LDA", T0)>>,
     <<InstrStmt("CMP", T0)>>,
     <<InstrStmt("LDA", T7FFF), InstrStmt("ADC", T1)>>,
     <<InstrStmt("CTA", NoArgument)>>,
     <<InstrStmt("LDX", TFFFF), InstrStmt("STX", T10)>>}

BranchSetups ==
    {<<>>,
     <<InstrStmt("LDA", T8000)>>,
     <<InstrStmt("LDA", T0)>>,
     <<InstrStmt("CMP", T0)>>,
     <<InstrStmt("LDA", T7FFF), InstrStmt("ADC", T1)>>}

\* one statement of every mnemonic, with literal operands, and raw bytes
Bodies ==
    {InstrStmt(op, a) : op \in IMM16_OPS, a \in {T1, T8000, TFFFF}}
    \cup {InstrStmt(op, a) : op \in {"STA", "LSA", "STX", "LSX", "OTT", "MUL",
                                     "MULM", "CMPC"},
                             a \in {T0, T10, TFF}}
    \cup {InstrStmt(op, NoArgument) : op \in NO_ARG}
    \cup {InstrStmt(op, a) : op \in BRANCH_OPS, a \in {T1, Tfd}}
    \cup {InstrStmt("JMP", a) : a \in {T0, TFFFF}}
    \cup {ByteStmt(t) : t \in {T0, TFF, TZZ}}
    \cup {InstrStmt("LDA", NoArgument), InstrStmt("STA", TZZ)}

Posts ==
    {<<>>, <<InstrStmt("LSX", T10)>>, <<InstrStmt("OTT", T10)>>}

InputQueues == {<<>>, <<5>>, <<-1>>, <<70000, 5>>}

ReadsInput(src) ==
    \E i \in 1..Len(src) : src[i].type = "instruction" /\ src[i].op = "CTA"

StepLimits == 1..MaxSteps

Call(src, n, q) == [source |-> src, max_steps |-> n, inputs |-> q]

StraightCalls ==
    {Call(s \o <<b>> \o p, n, q) :
        s \in Setups, b \in Bodies, p \in Posts, n \in StepLimits,
        q \in InputQueues}

Pad(n) == [i \in 1..n |-> InstrStmt("NOP", NoArgument)]

PadSizes == {0, 1, 2} \cup ((MaxPad - 3)..MaxPad)

\* a branch to a label declared after it, n bytes ahead
BranchForward(s, op, n) ==
    s \o <<InstrStmt(op, TL)>> \o Pad(n) \o <<LabelStmt(TL)>>

\* a branch to a label declared before it; the run jumps to the branch
BranchBackward(s, op, n) ==
    s \o <<InstrStmt("JMP", TB), LabelStmt(TL)>> \o Pad(n)
      \o <<LabelStmt(TB), InstrStmt(op, TL)>>

BranchCalls ==
    {Call(BranchForward(s, op, k), n, <<>>) :
        s \in BranchSetups, op \in BRANCH_OPS, k \in PadSizes, n \in {MaxSteps}}
    \cup {Call(BranchBackward(s, op, k), n, <<>>) :
        s \in BranchSetups, op \in BRANCH_OPS, k \in PadSizes, n \in {MaxSteps}}

\* sources of labels and references to them, in every order
LabelAlphabet ==
    {LabelStmt(TL), LabelStmt(TA), InstrStmt("JMP", TL), InstrStmt("BEQ", TA),
     InstrStmt("STA", TL), InstrStmt("LDA", TA), InstrStmt("NOP", NoArgument)}

RECURSIVE SeqsUpTo(_, _)
SeqsUpTo(S, n) ==
    IF n = 0 THEN {<<>>}
    ELSE LET shorter == SeqsUpTo(S, n - 1)
         IN shorter \cup {Append(q, x) : q \in shorter, x \in S}

LabelCalls == {Call(src, MaxSteps, <<>>) : src \in SeqsUpTo(LabelAlphabet, MaxLabelStmts)}

\* sources that fill the 65536 cells: a jump to the last cell, three-byte
\* statements up to it, and the statements given for the end
Filler(n) == [i \in 1..n |-> InstrStmt("LDY", T0)]

TopOfMemory(last) ==
    <<InstrStmt("JMP", TFFFF)>> \o Filler((MEM_SIZE - 4) \div 3) \o last

TopCalls ==
    {Call(TopOfMemory(last), 3, <<>>) :
        last \in {<<InstrStmt("NOP", NoArgument)>>,
                  <<ByteStmt(<<"A", "9">>)>>,
                  <<ByteStmt(TFF)>>,
                  <<InstrStmt("NOP", NoArgument), InstrStmt("NOP", NoArgument)>>}}

\* register and operand values around the 16-bit and the sign boundaries
T2 == <<"2">>
T3 == <<"3">>
T5 == <<"5">>
T100 == <<"1", "0", "0">>
T4000 == <<"4", "0", "0", "0">>

ValueTokens == {T0, T1, T2, T3, T5, T100, T4000, T7FFF, T8000, TFFFF}

\* the statements that leave Carry clear (it is clear in a new processor)
\* and set (a compare with 0 sets it and leaves the registers)
CarryIns == {<<>>, <<InstrStmt("CMP", T0)>>}

\* A loaded, Carry chosen, then one ADC or SBC
ArithCalls ==
    {Call(<<InstrStmt("LDA", a)>> \o c \o <<InstrStmt(op, v)>>, MaxSteps, <<>>) :
        a \in ValueTokens, c \in CarryIns, op \in {"ADC", "SBC"}, v \in ValueTokens}

\* a register loaded, then compared with an immediate
CompareCalls ==
    {Call(<<InstrStmt("LDA", a), InstrStmt("CMP", v)>>, MaxSteps, <<>>) :
        a \in ValueTokens, v \in ValueTokens}
    \cup {Call(<<InstrStmt("LDX", a), InstrStmt("CPX", v)>>, MaxSteps, <<>>) :
        a \in ValueTokens, v \in ValueTokens}

\* a word stored at a pointer, A loaded, then one instruction on the pointer
PointerCalls ==
    {Call(<<InstrStmt("LDA", w), InstrStmt("STA", p), InstrStmt("LDA", a),
            InstrStmt(op, p)>>, MaxSteps, <<>>) :
        w \in ValueTokens, a \in ValueTokens, op \in {"CMPC", "MULM", "MUL"},
        p \in {T10, TFF}}

\* a program that reaches beyond the cell 0x0100 and stores through the
\* highest pointer, 0xFF: A loaded, one store-style instruction, then
\* one-byte statements up to the address 2 * MaxPad + 9
LongStoreCalls ==
    {Call(<<InstrStmt("LDA", a), InstrStmt(op, TFF)>> \o Pad(2 * MaxPad + 4),
          MaxSteps, <<>>) :
        a \in {TFFFF, T100}, op \in {"STA", "STX", "MULM"}}

Calls ==
    {c \in StraightCalls : ReadsInput(c.source) \/ c.inputs = <<>>}
    \cup BranchCalls \cup LabelCalls \cup TopCalls
    \cup ArithCalls \cup CompareCalls \cup PointerCalls \cup LongStoreCalls

Init ==
    /\ \E c \in Calls :
          /\ source = c.source
          /\ max_steps = c.max_steps
          /\ inputs = c.inputs
    /\ phase = "assemble"
    /\ program = <<>>
    /\ cpu = CPU6502
    /\ input_values = <<>>
    /\ outputs = <<>>
    /\ occupied_addresses = {}
    /\ trace = <<>>
    /\ halted = FALSE
    /\ error = None
    /\ step = 0
    /\ final_state = snapshot(CPU6502)
    /\ exception = None

Next ==
    \/ Assemble
    \/ Load
    \/ StepUncaught
    \/ StepFault
    \/ StepHalt
    \/ StepContinue
    \/ LoopExhausted

Spec == Init /\ [][Next]_vars

(***************************************************************************)
(* Vocabulary of the properties                                            *)
(***************************************************************************)
AssemblyErrors == {ExpectsArgument, BranchOutOfRange, InvalidLiteral}

\* run_program has returned its result record
HasReturned == phase = "returned"
\* an exception has left run_program
HasRaised == phase = "raised"
\* assemble_source returned a program for the source of this call
Assembled == phase \in {"load", "loop", "returned"} \/ (HasRaised /\ exception \notin AssemblyErrors)

LastRecord == trace[Len(trace)]
IsErrorRecord(rec) == "error" \in DOMAIN rec
IsStepRecord(rec) == "after" \in DOMAIN rec

(***************************************************************************)
(* C1.  Every run on a successfully assembled program ends Halted (halted  *)
(* true, error null) or Faulted (halted false, error non-null); halted is  *)
(* true exactly when the last executed step fetched opcode 0x00, and no    *)
(* record follows a halt record or a fault record.                         *)
(***************************************************************************)
C1_TwoTerminalOutcomes ==
    /\ Assembled => ~HasRaised
    /\ \A i \in 1..(Len(trace) - 1) : IsStepRecord(trace[i]) /\ ~trace[i].halted
    /\ HasReturned =>
          /\ (halted /\ error = None) \/ (~halted /\ error # None)
          /\ halted <=> (trace # <<>> /\ LastRecord.opcode = 0
                         /\ IsStepRecord(LastRecord))

(***************************************************************************)
(* C2.  The trace never holds more than step_limit records, the step       *)
(* indices are 1, 2, ..., n, the loop variable never passes the limit by   *)
(* more than the one that ends the loop, step_limit completed steps        *)
(* without halt or fault end Faulted with the step-limit error, and a halt *)
(* fetched on the step_limit-th step ends Halted with error null.          *)
(***************************************************************************)
C2_StepCeiling ==
    /\ Len(trace) <= max_steps
    /\ \A i \in 1..Len(trace) : trace[i].step = i
    /\ phase = "loop" => step = Len(trace) + 1 /\ step <= max_steps + 1
    /\ (/\ HasReturned
        /\ Len(trace) = max_steps
        /\ \A i \in 1..Len(trace) :
              IsStepRecord(trace[i]) /\ ~trace[i].halted /\ trace[i].opcode # 0)
       => (error = ExceededMaxSteps(max_steps) /\ ~halted)
    /\ (/\ HasReturned
        /\ Len(trace) = max_steps
        /\ trace # <<>>
        /\ IsStepRecord(LastRecord)
        /\ LastRecord.opcode = 0)
       => (halted /\ error = None)

\* a run that used up its step limit, of more than one step
C2_Witness ==
    /\ HasReturned
    /\ max_steps > 1
    /\ Len(trace) = max_steps
    /\ error = ExceededMaxSteps(max_steps)

(***************************************************************************)
(* C3.  A step that fetches a byte outside the dispatch mapping is not a   *)
(* halt: the run stops at that step, whose record is the last of the trace *)
(* and carries an error and no post-step snapshot; error is non-null and   *)
(* halted stays false.                                                     *)
(***************************************************************************)
C3_UnknownOpcodeFaults ==
    \A i \in 1..Len(trace) :
        trace[i].opcode \notin DispatchOpcodes =>
            /\ i = Len(trace)
            /\ HasReturned
            /\ IsErrorRecord(trace[i])
            /\ ~IsStepRecord(trace[i])
            /\ trace[i].error # None
            /\ error # None
            /\ ~halted

\* the byte 0xFF of a raw literal was fetched after an executed instruction
C3_Witness ==
    /\ Len(trace) > 1
    /\ LastRecord.opcode = 255

(***************************************************************************)
(* C4.  No failure of the load or of the execution leaves run: once the    *)
(* source has assembled, the call returns a result record.                 *)
(***************************************************************************)
C4_NoFaultEscapesRun == HasRaised => exception \in AssemblyErrors

(***************************************************************************)
(* C5.  For the program made of the halt opcode alone, run returns halted  *)
(* true, one trace record, no outputs and a final_state equal to the       *)
(* pre-step snapshot of step 1 in every field.                             *)
(***************************************************************************)
HaltOnlyRun == program = <<0>> /\ HasReturned

C5_HaltOnlyAllFields ==
    HaltOnlyRun =>
        /\ halted
        /\ Len(trace) = 1
        /\ outputs = <<>>
        /\ final_state = trace[1].before

\* C5 as amended: every field but PC, which is 1, the address after the
\* halt opcode
C5_HaltOnlyButPC ==
    HaltOnlyRun =>
        /\ halted
        /\ error = None
        /\ Len(trace) = 1
        /\ trace[1].opcode = 0
        /\ outputs = <<>>
        /\ final_state = [trace[1].before EXCEPT !.PC = 1]
        /\ trace[1].before = snapshot(CPU6502)
        /\ trace[1].after = final_state

C5_Witness == HaltOnlyRun /\ final_state.PC = 1

(***************************************************************************)
(* C6.  In every reachable processor state the program counter lies in     *)
(* 0..65535.                                                               *)
(***************************************************************************)
C6_PCWithinAddressSpace == cpu.PC \in 0..65535

(***************************************************************************)
(* C7.  After any sequence of executed instructions A, X and Y hold values *)
(* in 0..0xFFFF and every memory cell holds a value in 0..0xFF.            *)
(***************************************************************************)
C7_RegistersAndCellsInRange ==
    /\ cpu.A \in 0..65535
    /\ cpu.X \in 0..65535
    /\ cpu.Y \in 0..65535
    /\ \A a \in DOMAIN cpu.memory : a \in 0..(MEM_SIZE - 1) /\ cpu.memory[a] \in 0..255

\* console input of an integer outside 16 bits has been loaded and moved on
C7_Witness ==
    /\ inputs = <<70000, 5>>
    /\ Len(trace) >= 2
    /\ trace[1].opcode = 5
    /\ cpu.A = 4464

(***************************************************************************)
(* Vocabulary of the assembler properties                                  *)
(***************************************************************************)
\* the address pass 1 has reached before statement i
StmtAddr(statements, i) ==
    Pass1(statements, 1, i - 1, [addr |-> 0, labels |-> EmptyDict]).addr

\* the number of bytes pass 2 has appended before statement i
EmittedBefore(statements, i) ==
    Len(Pass2(statements, 1, i - 1, 0, LabelTable(statements).labels).program)

LabelDecls(statements) ==
    {i \in 1..Len(statements) : statements[i].type = "label"}

\* the instructions whose operand names a label of the source
LabelRefs(statements) ==
    LET names == {statements[i].value : i \in LabelDecls(statements)}
    IN {i \in 1..Len(statements) :
           /\ statements[i].type = "instruction"
           /\ statements[i].op \notin NO_ARG
           /\ statements[i].arg \in names}

LabelBranches(statements) ==
    {i \in LabelRefs(statements) : statements[i].op \in BRANCH_OPS}

\* the offset of the branch at statement i: label address minus the address
\* after the offset byte
ComputedOffset(statements, i) ==
    LabelTable(statements).labels[statements[i].arg] - (StmtAddr(statements, i) + 2)

\* the condition each branch mnemonic names
MnemonicCondition(op, fl) ==
    CASE op = "BNE" -> ~fl.Z [] op = "BEQ" -> fl.Z
      [] op = "BCC" -> ~fl.C [] op = "BCS" -> fl.C
      [] op = "BMI" -> fl.N  [] op = "BPL" -> ~fl.N
      [] op = "BVS" -> fl.V  [] op = "BVC" -> ~fl.V

Signed8(byte) == IF byte > 127 THEN byte - 256 ELSE byte

\* the source with the mnemonic of statement i replaced
WithMnemonic(statements, i, op) ==
    [statements EXCEPT ![i] = InstrStmt(op, statements[i].arg)]

\* the state right after assemble_source returned or raised
JustAssembled == step = 0 /\ phase \in {"load", "raised"}

(***************************************************************************)
(* C8.  A conditional branch assembled with a label operand and executed   *)
(* from the assembled image sets PC to the label's address and charges 3   *)
(* cycles when its condition holds, and otherwise leaves PC after the      *)
(* offset byte and charges 2 cycles; the offset byte is (label address -   *)
(* (address of the offset byte + 1)) mod 256, read as signed 8-bit.        *)
(***************************************************************************)
\* statement i is a label branch emitted at cpu.PC, its two bytes still as
\* assembled
BranchFetched(i) ==
    /\ i \in LabelBranches(source)
    /\ EmittedBefore(source, i) = cpu.PC
    /\ MemRead(cpu.memory, cpu.PC) = program[cpu.PC + 1]
    /\ MemRead(cpu.memory, cpu.PC + 1) = program[cpu.PC + 2]

AtBranchOpcode ==
    /\ InLoop
    /\ ValidIndex(cpu.PC)
    /\ MemRead(cpu.memory, cpu.PC) \in BranchOpcodes

C8_BranchReachesLabel ==
    [][AtBranchOpcode =>
          \A i \in 1..Len(source) :
              BranchFetched(i) =>
                  LET target == LabelTable(source).labels[source[i].arg]
                      byte == program[cpu.PC + 2]
                      taken == MnemonicCondition(source[i].op, snapshot(cpu).flags)
                  IN /\ byte = (target - (cpu.PC + 2)) % 256
                     /\ cpu.PC + 2 + Signed8(byte) = target
                     /\ cpu'.PC = IF taken THEN target ELSE cpu.PC + 2
                     /\ cpu'.cycles = cpu.cycles + (IF taken THEN 3 ELSE 2)]_vars

\* a label branch 128 bytes back has just been taken
C8_Witness ==
    /\ trace # <<>>
    /\ IsStepRecord(LastRecord)
    /\ LastRecord.opcode \in BranchOpcodes
    /\ LastRecord.after.PC = LastRecord.before.PC + 2 - 128
    /\ \E i \in LabelBranches(source) :
          EmittedBefore(source, i) = LastRecord.before.PC

(***************************************************************************)
(* C9.  For each of the eight branch mnemonics, a branch to a label whose  *)
(* computed offset is greater than 127 or less than -127 fails with an     *)
(* assembly error and returns no bytes.                                    *)
(***************************************************************************)
C9_FailsBeyond127 ==
    JustAssembled =>
        \A i \in LabelBranches(source) :
            (ComputedOffset(source, i) > 127 \/ ComputedOffset(source, i) < -127)
            => (HasRaised /\ exception \in AssemblyErrors /\ program = <<>>)

\* C9 as amended: the offsets that fail are those greater than 127 or less
\* than -128; the range error is raised for no other offset, and the
\* mnemonic does not change the outcome
C9_FailsOutsideSigned8 ==
    JustAssembled =>
        /\ \A i \in LabelBranches(source) :
              (ComputedOffset(source, i) > 127 \/ ComputedOffset(source, i) < -128)
              => (HasRaised /\ exception \in AssemblyErrors /\ program = <<>>)
        /\ (HasRaised /\ exception = BranchOutOfRange) =>
              \E i \in LabelBranches(source) :
                  ComputedOffset(source, i) \notin -128..127
        /\ \A i \in LabelBranches(source) : \A op \in BRANCH_OPS :
              assemble_source(WithMnemonic(source, i, op)).err
                 = (IF HasRaised /\ exception \in AssemblyErrors
                    THEN exception ELSE None)

\* a branch 129 bytes back was refused
C9_Witness ==
    /\ HasRaised
    /\ exception = BranchOutOfRange
    /\ \E i \in LabelBranches(source) : ComputedOffset(source, i) = -129

(***************************************************************************)
(* C10.  For every program that assembles, each label's resolved address   *)
(* is the index in the emitted bytes of the first byte of the statement    *)
(* that follows the label (the program length if none follows), the pass-1 *)
(* total size is the length of the pass-2 output, and a reference to a     *)
(* label is encoded from that address whether the label is declared before *)
(* or after the reference.                                                 *)
(***************************************************************************)
\* the bytes of an instruction that refers to address target, itself
\* emitted at address at
ReferenceBytes(op, target, at) ==
    IF op \in BRANCH_OPS THEN <<OPCODES[op], (target - (at + 2)) % 256>>
    ELSE IF op \in IMM16_OPS \/ op \in ABSOLUTE_ADDR
    THEN <<OPCODES[op], target % 256, (target \div 256) % 256>>
    ELSE <<OPCODES[op], target % 256>>

SizesAgree == LabelTable(source).addr = Len(program)

ReferencesEncoded ==
    \A i \in LabelRefs(source) :
        LET at == EmittedBefore(source, i)
            bytes == ReferenceBytes(source[i].op,
                                    LabelTable(source).labels[source[i].arg], at)
        IN SubSeq(program, at + 1, at + Len(bytes)) = bytes

C10_LabelsPositionExact ==
    (JustAssembled /\ phase = "load") =>
        /\ \A i \in LabelDecls(source) :
              LabelTable(source).labels[source[i].value] = EmittedBefore(source, i)
        /\ SizesAgree
        /\ ReferencesEncoded

(***************************************************************************)
(* Vocabulary of the properties of one step                                *)
(***************************************************************************)
\* the loop is about to execute the byte op
AtOpcode(op) == InLoop /\ ValidIndex(cpu.PC) /\ MemRead(cpu.memory, cpu.PC) = op

\* the step appended a step record: execute_instructions returned
StepDone == Len(trace') = Len(trace) + 1 /\ IsStepRecord(trace'[Len(trace')])

\* the step appended an error record: execute_instructions raised
StepFaulted == Len(trace') = Len(trace) + 1 /\ IsErrorRecord(trace'[Len(trace')])

\* the little-endian word held at a and a + 1
WordAt(mem, a) == MemRead(mem, a) + 256 * MemRead(mem, a + 1)

\* the operands that follow the opcode about to be executed
ImmediateOperand == WordAt(cpu.memory, cpu.PC + 1)
PointerOperand == MemRead(cpu.memory, cpu.PC + 1)

Bit15(x) == (x % 65536) >= 32768

(***************************************************************************)
(* C11.  For every mnemonic of the assembler's table the opcode byte it    *)
(* emits is decoded by the processor (the step never faults as an unknown  *)
(* opcode), the assembled size is 1, 2 or 3, and after the instruction at  *)
(* address p has executed, not being a jump or a taken branch, PC is p     *)
(* plus the assembled size.                                                *)
(***************************************************************************)
C11_EncodingMatchesDecoding ==
    [][\A m \in DOMAIN OPCODES :
          AtOpcode(OPCODES[m]) =>
              /\ _instruction_size(m) \in {1, 2, 3}
              /\ StepFaulted => trace'[Len(trace')].error # UnknownOpcode
              /\ (/\ StepDone
                  /\ m # "JMP"
                  /\ ~(m \in BRANCH_OPS /\ MnemonicCondition(m, snapshot(cpu).flags)))
                 => cpu'.PC = cpu.PC + _instruction_size(m)]_vars

\* a one-byte, a two-byte and a three-byte instruction have executed
C11_Witness ==
    /\ Len(trace) >= 3
    /\ \A i \in 1..3 : IsStepRecord(trace[i])
    /\ trace[1].opcode = OPCODES["LDX"] /\ trace[1].after.PC = trace[1].before.PC + 3
    /\ trace[2].opcode = OPCODES["STX"] /\ trace[2].after.PC = trace[2].before.PC + 2
    /\ trace[3].opcode = OPCODES["TAX"] /\ trace[3].after.PC = trace[3].before.PC + 1

(***************************************************************************)
(* C12.  A compare of the register r (A for CMP and CMPC, X for CPX) with  *)
(* the comparand v (the immediate, or for CMPC the little-endian word at   *)
(* the pointer) sets Zero iff r = v, Carry iff r >= v, Negative iff bit 15 *)
(* of (r - v) mod 65536 is set, and leaves A, X, Y and memory unchanged.   *)
(***************************************************************************)
CompareSets(r, v) ==
    /\ Z(cpu') <=> (r = v)
    /\ C(cpu') <=> (r >= v)
    /\ N(cpu') <=> Bit15(r - v)
    /\ cpu'.A = cpu.A /\ cpu'.X = cpu.X /\ cpu'.Y = cpu.Y
    /\ cpu'.memory = cpu.memory

C12_CompareFlags ==
    [][StepDone =>
          /\ AtOpcode(OPCODES["CMP"]) => CompareSets(cpu.A, ImmediateOperand)
          /\ AtOpcode(OPCODES["CPX"]) => CompareSets(cpu.X, ImmediateOperand)
          /\ AtOpcode(OPCODES["CMPC"]) =>
                CompareSets(cpu.A, WordAt(cpu.memory, PointerOperand))]_vars

\* LDA 5 then CMP 5 has left Zero and Carry set
C12_Witness ==
    /\ Len(trace) >= 2
    /\ trace[1].opcode = OPCODES["LDA"] /\ trace[1].after.A = 5
    /\ trace[2].opcode = OPCODES["CMP"]
    /\ IsStepRecord(trace[2])
    /\ trace[2].after.flags.Z /\ trace[2].after.flags.C
    /\ program = <<169, 5, 0, 201, 5, 0>>

(***************************************************************************)
(* C13.  ADC sets A to (A + v + c) mod 65536, Carry iff A + v + c > 0xFFFF,*)
(* Overflow iff the sum of A and v read as signed 16-bit values plus c is  *)
(* outside -32768..32767, Zero iff the new A is 0 and Negative iff bit 15  *)
(* of the new A is set, c being the incoming Carry.                        *)
(***************************************************************************)
Signed16(x) == IF x >= 32768 THEN x - 65536 ELSE x

CarryIn == IF C(cpu) THEN 1 ELSE 0

C13_AddWithCarry ==
    [][(AtOpcode(OPCODES["ADC"]) /\ StepDone) =>
          LET a == cpu.A
              v == ImmediateOperand
              sum == a + v + CarryIn
          IN /\ cpu'.A = sum % 65536
             /\ C(cpu') <=> (sum > 65535)
             /\ V(cpu') <=> (Signed16(a) + Signed16(v) + CarryIn \notin -32768..32767)
             /\ Z(cpu') <=> (cpu'.A = 0)
             /\ N(cpu') <=> Bit15(cpu'.A)]_vars

\* A = 0x7FFF, operand 0x0001, Carry clear: A = 0x8000, Overflow and
\* Negative set, Zero clear
C13_Witness ==
    /\ program = <<169, 255, 127, 105, 1, 0>>
    /\ Len(trace) >= 2
    /\ IsStepRecord(trace[2])
    /\ ~trace[2].before.flags.C
    /\ trace[2].after.A = 32768
    /\ trace[2].after.flags.V /\ trace[2].after.flags.N /\ ~trace[2].after.flags.Z

(***************************************************************************)
(* C14.  MULM with the word w stored little-endian at the pointer addr     *)
(* leaves (A * w) mod 65536 stored little-endian at addr and addr + 1,     *)
(* leaves A, X and Y unchanged, sets Zero iff the product is 0 and         *)
(* Negative iff its bit 15 is set, and charges 6 cycles.                   *)
(***************************************************************************)
\* (a * b) mod 65536 by doubling and adding
RECURSIVE ProductMod16(_, _)
ProductMod16(a, b) ==
    IF b = 0 THEN 0
    ELSE ((IF b % 2 = 1 THEN a ELSE 0) + 2 * ProductMod16(a, b \div 2)) % 65536

C14_MultiplyToMemory ==
    [][(AtOpcode(OPCODES["MULM"]) /\ StepDone) =>
          LET addr == PointerOperand
              product == ProductMod16(cpu.A, WordAt(cpu.memory, addr))
          IN /\ MemRead(cpu'.memory, addr) = product % 256
             /\ MemRead(cpu'.memory, addr + 1) = product \div 256
             /\ cpu'.A = cpu.A /\ cpu'.X = cpu.X /\ cpu'.Y = cpu.Y
             /\ Z(cpu') <=> (product = 0)
             /\ N(cpu') <=> Bit15(product)
             /\ cpu'.cycles = cpu.cycles + 6]_vars

\* A = 0x0002 and the word 0x0003 at the pointer: 0x0006 at the pointer,
\* Zero clear and Negative clear
C14_Witness ==
    /\ Len(trace) = 4
    /\ IsStepRecord(trace[4])
    /\ trace[4].opcode = OPCODES["MULM"]
    /\ trace[4].before.A = 2 /\ trace[4].after.A = 2
    /\ trace[3].memory_used = <<[address |-> 16, value |-> 3], [address |-> 17, value |-> 0]>>
    /\ MemRead(cpu.memory, 16) = 6 /\ MemRead(cpu.memory, 17) = 0
    /\ ~trace[4].after.flags.Z /\ ~trace[4].after.flags.N

(***************************************************************************)
(* C15.  The k-th executed console input (CTA, opcode 0x05) of a run loads *)
(* A with the k-th element of the input queue masked to 16 bits, or with 0 *)
(* when the queue has fewer than k elements; what is left of the queue is  *)
(* the queue without the elements read, so an element is read once and by  *)
(* console inputs only.                                                    *)
(***************************************************************************)
\* the console inputs executed among the first n steps
ConsoleReads(n) ==
    Cardinality({i \in 1..n : trace[i].opcode = OPCODES["CTA"] /\ IsStepRecord(trace[i])})

C15_InputFifo ==
    /\ \A i \in 1..Len(trace) :
          (trace[i].opcode = OPCODES["CTA"] /\ IsStepRecord(trace[i])) =>
              LET k == ConsoleReads(i)
              IN trace[i].after.A = IF k <= Len(inputs) THEN inputs[k] % 65536 ELSE 0
    /\ phase \in {"loop", "returned"} =>
          LET k == ConsoleReads(Len(trace))
              read == IF k <= Len(inputs) THEN k ELSE Len(inputs)
          IN input_values = SubSeq(inputs, read + 1, Len(inputs))

\* two console inputs on a queue of one element: the element, then 0
C15_Witness ==
    /\ inputs = <<5>>
    /\ Len(trace) >= 2
    /\ trace[1].opcode = OPCODES["CTA"] /\ trace[1].after.A = 5
    /\ trace[2].opcode = OPCODES["CTA"] /\ trace[2].after.A = 0
    /\ input_values = <<>>

(***************************************************************************)
(* C16.  The outputs list is the sequence of the console outputs executed, *)
(* in order: an executed OTT (opcode 0x06) with pointer addr appends the   *)
(* pair of the little-endian word at addr, addr + 1 and addr; a step of    *)
(* any other instruction leaves the list as it is; entries are never       *)
(* changed or removed.                                                     *)
(***************************************************************************)
\* the console outputs executed so far
ConsoleWrites ==
    Cardinality({i \in 1..Len(trace) :
                    trace[i].opcode = OPCODES["OTT"] /\ IsStepRecord(trace[i])})

C16_OutputsInOrder ==
    /\ [](Len(outputs) = ConsoleWrites)
    /\ [][IF AtOpcode(OPCODES["OTT"]) /\ StepDone
          THEN outputs' = Append(outputs,
                                 [value |-> WordAt(cpu.memory, PointerOperand),
                                  address |-> PointerOperand])
          ELSE outputs' = outputs]_vars

\* two console outputs of the word 0xFFFF stored at 0x10
C16_Witness ==
    /\ Len(trace) = 4
    /\ trace[3].opcode = OPCODES["OTT"] /\ trace[4].opcode = OPCODES["OTT"]
    /\ outputs = <<[value |-> 65535, address |-> 16], [value |-> 65535, address |-> 16]>>

(***************************************************************************)
(* C17.  SBC sets A to (A - v - (1 - c)) mod 65536, Carry iff              *)
(* A - v - (1 - c) >= 0, Overflow iff the difference of A and v read as    *)
(* signed 16-bit values, minus (1 - c), is outside -32768..32767, Zero iff *)
(* the new A is 0 and Negative iff bit 15 of the new A is set, c being the *)
(* incoming Carry.                                                         *)
(***************************************************************************)
C17_SubtractWithCarry ==
    [][(AtOpcode(OPCODES["SBC"]) /\ StepDone) =>
          LET a == cpu.A
              v == ImmediateOperand
              borrow == 1 - CarryIn
              diff == a - v - borrow
          IN /\ cpu'.A = diff % 65536
             /\ C(cpu') <=> (diff >= 0)
             /\ V(cpu') <=> (Signed16(a) - Signed16(v) - borrow \notin -32768..32767)
             /\ Z(cpu') <=> (cpu'.A = 0)
             /\ N(cpu') <=> Bit15(cpu'.A)]_vars

\* A = 0x8000, operand 0x0001, Carry set: A = 0x7FFF with Overflow and
\* Carry set
C17_Witness ==
    /\ program = <<169, 0, 128, 201, 0, 0, 233, 1, 0>>
    /\ Len(trace) >= 3
    /\ IsStepRecord(trace[3])
    /\ trace[3].before.flags.C
    /\ trace[3].after.A = 32767
    /\ trace[3].after.flags.V /\ trace[3].after.flags.C /\ ~trace[3].after.flags.N

(***************************************************************************)
(* C18.  The cycle counter never decreases, and each executed instruction  *)
(* adds its fixed cost: 0 for halt, 1 for clear-carry, 2 for immediate     *)
(* loads, ADC/SBC, AND/ORA/EOR, CMP/CPX, TAX/XTA, NOP, console input and a *)
(* branch not taken, 3 for JMP and a taken branch, 4 for memory store and  *)
(* load, console output, MUL and memory compare, 6 for MULM; the cycles of *)
(* a post-step snapshot are those of the pre-step snapshot plus the cost.  *)
(***************************************************************************)
\* the cost of mnemonic m executed with the flags fl
CycleCost(m, fl) ==
    CASE m = "BRK" -> 0
      [] m = "CLC" -> 1
      [] m \in {"LDA", "LDX", "LDY", "ADC", "SBC", "AND", "ORA", "EOR", "CMP", "CPX",
                "TAX", "XTA", "NOP", "CTA"} -> 2
      [] m \in BRANCH_OPS -> IF MnemonicCondition(m, fl) THEN 3 ELSE 2
      [] m = "JMP" -> 3
      [] m \in {"STA", "STX", "LSA", "LSX", "OTT", "MUL", "CMPC"} -> 4
      [] m = "MULM" -> 6

C18_CycleCosts ==
    /\ \A i \in 1..Len(trace) :
          IsStepRecord(trace[i]) =>
              \E m \in DOMAIN OPCODES :
                  /\ OPCODES[m] = trace[i].opcode
                  /\ trace[i].after.cycles
                        = trace[i].before.cycles + CycleCost(m, trace[i].before.flags)
    /\ \A i \in 1..(Len(trace) - 1) :
          trace[i + 1].before.cycles >= trace[i].before.cycles
    /\ trace # <<>> => trace[1].before.cycles = 0
    /\ cpu.cycles >= (IF trace # <<>> THEN LastRecord.before.cycles ELSE 0)

\* a load, a store, a load and a MULM have executed: 2 + 4 + 2 + 6 cycles
C18_Witness ==
    /\ Len(trace) = 4
    /\ trace[4].opcode = OPCODES["MULM"]
    /\ IsStepRecord(trace[4])
    /\ trace[4].after.cycles = 2 + 4 + 2 + 6

(***************************************************************************)
(* C19.  In every reachable state SP = 0xFD, the IRQ-disable, Decimal and  *)
(* Break flags are false, bit 5 of the packed status byte is set and the   *)
(* byte is within 0..0xFF; writing one of Carry, Zero, Overflow, Negative  *)
(* changes that flag's bit only.                                           *)
(***************************************************************************)
\* the bit of the packed byte p that mask selects, and p without it
BitOf(p, mask) == (p \div mask) % 2
WithoutBit(p, mask) == p - mask * BitOf(p, mask)

C19_DormantState ==
    /\ cpu.SP = 253
    /\ ~I(cpu) /\ ~D(cpu) /\ ~B(cpu)
    /\ BitOf(cpu.P, 32) = 1
    /\ cpu.P \in 0..255
    /\ \A i \in 1..Len(trace) :
          /\ trace[i].before.SP = 253
          /\ BitOf(trace[i].before.P, 32) = 1
          /\ ~trace[i].before.flags.I /\ ~trace[i].before.flags.D
          /\ ~trace[i].before.flags.B
    /\ \A mask \in {CARRY, ZERO, OVERFLOW, NEGATIVE} : \A v \in BOOLEAN :
          LET written == SetFlag(cpu, mask, v)
          IN /\ BitOf(written.P, mask) = (IF v THEN 1 ELSE 0)
             /\ WithoutBit(written.P, mask) = WithoutBit(cpu.P, mask)
             /\ [written EXCEPT !.P = cpu.P] = cpu

\* Carry, Overflow and Negative have been written and are set
C19_Witness ==
    /\ HasReturned
    /\ C(cpu) /\ V(cpu) /\ N(cpu)
    /\ cpu.P = 32 + CARRY + OVERFLOW + NEGATIVE

(***************************************************************************)
(* C20.  The pre-step snapshot of step 1 is the initial state (PC = 0,     *)
(* A = X = Y = 0, SP = 0xFD, status byte 0x20, cycles = 0); the pre-step   *)
(* snapshot of step k + 1 is the post-step snapshot of step k; the opcode  *)
(* recorded for a step is the memory byte at the step's pre-step PC; and   *)
(* final_state is the post-step snapshot of the last step when the run did *)
(* not fault in a step.                                                    *)
(***************************************************************************)
InitialSnapshot(s) ==
    /\ s.PC = 0 /\ s.A = 0 /\ s.X = 0 /\ s.Y = 0
    /\ s.SP = 253 /\ s.P = 32 /\ s.cycles = 0
    /\ \A f \in DOMAIN s.flags : ~s.flags[f]

TraceContinuous ==
    /\ trace # <<>> => InitialSnapshot(trace[1].before)
    /\ \A k \in 1..(Len(trace) - 1) : trace[k + 1].before = trace[k].after
    /\ (HasReturned /\ trace # <<>> /\ IsStepRecord(LastRecord))
          => final_state = LastRecord.after

C20_TraceIsOneHistory ==
    /\ []TraceContinuous
    /\ [][Len(trace') = Len(trace) + 1 =>
             LET rec == trace'[Len(trace')]
             IN /\ rec.before = snapshot(cpu)
                /\ rec.opcode = MemRead(cpu.memory, rec.before.PC)]_vars

\* a run of four steps that ended without a fault in a step
C20_Witness ==
    /\ HasReturned
    /\ Len(trace) = 4
    /\ IsStepRecord(LastRecord)
    /\ trace[4].before = trace[3].after
    /\ trace[4].before.PC > 0
    /\ final_state = trace[4].after

(***************************************************************************)
(* C21.  After any sequence of steps every memory cell at an address       *)
(* greater than 0x0100 holds the value it had right after the program was  *)
(* loaded: a store-style instruction (STA, STX, MULM) takes one pointer    *)
(* byte and writes addr and addr + 1, so only the cells 0x0000..0x0100 can *)
(* change.                                                                 *)
(***************************************************************************)
\* the non-zero cells of mem above the cell 0x0100
AboveLowPage(mem) == [a \in {x \in DOMAIN mem : x > 256} |-> mem[a]]

\* the program has been loaded and the loop entered
Loaded == phase \in {"loop", "returned"} \/ (HasRaised /\ step >= 1)

C21_WritesStayInLowPage ==
    /\ [](Loaded => AboveLowPage(cpu.memory) = AboveLowPage(LoadedMemory(program)))
    /\ [][Loaded =>
             \A a \in (DOMAIN cpu.memory) \cup (DOMAIN cpu'.memory) :
                 MemRead(cpu'.memory, a) # MemRead(cpu.memory, a) =>
                     /\ a \in 0..256
                     /\ \E m \in {"STA", "STX", "MULM"} :
                           /\ AtOpcode(OPCODES[m])
                           /\ a \in {PointerOperand, PointerOperand + 1}]_vars

\* a store through the pointer 0xFF has changed the cell 0x0100 of a program
\* that is loaded up to 0x0108, and the cells above still hold the program
C21_Witness ==
    /\ Len(program) = 2 * MaxPad + 9
    /\ Len(trace) >= 2
    /\ trace[2].opcode = OPCODES["STA"]
    /\ program[256 + 1] = 234
    /\ MemRead(cpu.memory, 256) = 255
    /\ MemRead(cpu.memory, 257) = 234

(***************************************************************************)
(* C22.  A step that faults on an unrecognized opcode changes nothing but  *)
(* the program counter: final_state equals the step's pre-step snapshot in *)
(* A, X, Y, SP, the flags and cycles, PC is the address of the faulting    *)
(* opcode plus one, memory is unchanged, no element of the input queue is  *)
(* consumed and no output is appended.  The snapshot reports PC in 16      *)
(* bits, so the address after 0xFFFF reads 0.                              *)
(***************************************************************************)
C22_UnknownOpcodeOnlyMovesPC ==
    [][(StepFaulted /\ trace'[Len(trace')].error = UnknownOpcode) =>
          LET before == trace'[Len(trace')].before
          IN /\ before = snapshot(cpu)
             /\ [cpu' EXCEPT !.PC = 0] = [cpu EXCEPT !.PC = 0]
             /\ final_state' = [before EXCEPT !.PC = (before.PC + 1) % 65536]
             /\ final_state' = snapshot(cpu')
             /\ cpu'.memory = cpu.memory
             /\ input_values' = input_values
             /\ outputs' = outputs]_vars

\* the byte 0xFF faulted after a load and an addition
C22_Witness ==
    /\ HasReturned
    /\ Len(trace) = 3
    /\ IsErrorRecord(LastRecord)
    /\ LastRecord.opcode = 255
    /\ LastRecord.error = UnknownOpcode
    /\ final_state.A = 32768 /\ final_state.flags.V
    /\ final_state.PC = LastRecord.before.PC + 1
    /\ final_state.cycles = 4

====
